---- MODULE Spec2Model ----
(***************************************************************************)
(* Model of tf2schema's SchemaManager (src/tf2schema/schema/manager.py).   *)
(*                                                                         *)
(* Several specifications share this module:                              *)
(*   Spec / LiveSpec : the manager as a state machine. Coroutines calling  *)
(*       get, fetch_schema, get_schema_from_file and wait_for_schema on    *)
(*       one manager interleave at their await points on one asyncio loop; *)
(*       the four sub-fetches of asyncio.gather are tasks whose outcome    *)
(*       (response or exception) is what _fetch_page produces.             *)
(*   FetchSpec : one run of _fetch_items_from_steam, with every            *)
(*       _fetch_page call modelled attempt by attempt against a paginated  *)
(*       source.                                                           *)
(*   PaintSpec : the paint-kit extraction of _fetch_paint_kits_from_github *)
(*       applied to a parsed Tokens mapping.                               *)
(* Time is counted in ticks of the clock read by time.time().              *)
(***************************************************************************)
EXTENDS Integers, Sequences, FiniteSets, TLC

\* ------------------------------------------------------------------ bounds
MaxTime == 2            \* the clock runs from 0 to MaxTime
NumCallers == 2         \* coroutines using the manager, one call each
Timeout == 1            \* wait_for_schema(timeout), in ticks
update_interval == 1    \* SchemaManager(update_interval=...), in ticks
Retries == 2            \* _fetch_page(retries=...)
NumTokens == 2          \* distinct continuation tokens of the item listing
MaxPageItems == 1       \* items on one page of the item listing
MaxProtos == 3          \* entries of a generated Tokens mapping

Callers == 1 .. NumCallers

\* --------------------------------------------------------------- snapshots
\* The four sub-fetches of fetch_schema, in the order gather receives them.
SubFetches == <<"items", "overview", "paintkits", "items_game">>
NumSub == Len(SubFetches)

Missing == "missing"
NoRaw == [k \in 1 .. NumSub |-> Missing]
FullRaw == [k \in 1 .. NumSub |-> SubFetches[k]]

\* Schema(raw, fetch_time); set = FALSE stands for Python's None.
None == [set |-> FALSE, raw |-> NoRaw, fetch_time |-> 0]
Schema(raw, fetch_time) == [set |-> TRUE, raw |-> raw, fetch_time |-> fetch_time]

\* The cache file: absent, opened for writing and not yet written back
\* (truncated), holding json.dumps({"raw":..., "fetch_time":...}), or holding
\* the bytes of one document laid over a longer one (mixed).
NoFile == [state |-> "absent", raw |-> NoRaw, fetch_time |-> 0]
Truncated == [state |-> "truncated", raw |-> NoRaw, fetch_time |-> 0]
FileOf(s) == [state |-> "data", raw |-> s.raw, fetch_time |-> s.fetch_time]
Mixed == [state |-> "mixed", raw |-> NoRaw, fetch_time |-> 0]

\* No snapshot has been fetched from the network yet.
NoTime == 0 - 1

Pending == [kind |-> "pending", exc |-> "", value |-> None]
Return(v) == [kind |-> "return", exc |-> "", value |-> v]
Raise(x) == [kind |-> "raise", exc |-> x, value |-> None]

VARIABLES
    now,            \* time.time()
    schema,         \* self.schema
    file,           \* the file at self.file_path
    steam_api_key,  \* self.steam_api_key: "None" or "key"
    save_to_file,   \* self.save_to_file
    op,             \* per caller: the method it called last
    force_files,    \* per caller: get's force_files argument
    pc,             \* per caller: where the call is suspended
    local,          \* per caller: get's local variable `schema`
    data,           \* per caller: _save_schema_to_file's argument `data`
    task,           \* per caller: state of the four gathered sub-fetches
    exc,            \* per caller: first exception set on the gather future
    sent,           \* per caller: requests sent by the call's sub-fetches
    result,         \* per caller: how the call ended
    start,          \* per caller: wait_for_schema's local `start`
    solo,           \* per caller: no other call has overlapped with its call
    net_time,       \* fetch_time of the last snapshot fetch_schema published
    \* --- one run of _fetch_items_from_steam (FetchSpec)
    source,         \* the item listing: start token -> page
    fpc,            \* where the run is: init, wait, sleep, returned, raised
    params,         \* params["start"] (0: the key is not in params)
    i,              \* _fetch_page's loop variable
    e,              \* _fetch_page's variable `e`
    outcomes,       \* outcome of each attempt of the current _fetch_page
    items,          \* _fetch_items_from_steam's list `items`
    pagelog,        \* start token of every page received so far
    fexc,           \* the exception the run raised
    \* --- one run of the paint-kit extraction (PaintSpec)
    protos,         \* parsed["lang"]["Tokens"], in the mapping's order
    ppc,            \* where the run is: scan, build, returned, raised
    cursor,         \* entries the current loop has consumed
    paint_kits,     \* the list `paint_kits`
    paintkits_obj,  \* the dict `paintkits_obj`, in insertion order
    pexc            \* the exception the run raised

mvars == <<now, schema, file, save_to_file, op, force_files,
           pc, local, data, task, exc, sent, result, start, solo, net_time>>

fvars == <<source, fpc, params, i, e, outcomes, items, pagelog, fexc>>

pvars == <<protos, ppc, cursor, paint_kits, paintkits_obj, pexc>>

vars == <<mvars, steam_api_key, fvars, pvars>>

\* ---------------------------------------------------- the item listing
\* A page of GetSchemaItems: result.items and result.next (0: no "next").
Items == {"a", "b"}
Tokens == 1 .. NumTokens

RECURSIVE SeqsUpTo(_, _)
SeqsUpTo(S, n) ==
    IF n = 0 THEN {<<>>}
    ELSE LET shorter == SeqsUpTo(S, n - 1) IN
         shorter \cup {Append(q, x) : q \in shorter, x \in S}

Pages == [items : SeqsUpTo(Items, MaxPageItems), next : {0} \cup Tokens]
EmptyPage == [items |-> <<>>, next |-> 0]
NoSource == [t \in {0} \cup Tokens |-> EmptyPage]

\* The start tokens a client that follows `next` sends, from token t on;
\* seen are the tokens already requested.
RECURSIVE Chain(_, _, _)
Chain(src, t, seen) ==
    IF src[t].next = 0 \/ src[t].next \in seen \cup {t}
    THEN <<t>>
    ELSE <<t>> \o Chain(src, src[t].next, seen \cup {t})

Range(q) == {q[j] : j \in 1 .. Len(q)}

\* The listing ends: following `next` from the first page reaches a page
\* without `next`.
Terminates(src) == src[Chain(src, 0, {})[Len(Chain(src, 0, {}))]].next = 0

\* Listings that end, with nothing behind the tokens they never hand out.
Sources ==
    {src \in [{0} \cup Tokens -> Pages] :
        /\ Terminates(src)
        /\ \A t \in Tokens : t \notin Range(Chain(src, 0, {})) => src[t] = EmptyPage}

\* Python's unbound local.
Unbound == "unbound"

NoTasks == [k \in 1 .. NumSub |-> "none"]
ReadyTasks == [k \in 1 .. NumSub |-> "ready"]

has_schema == schema.set

\* No paint-kit extraction is running.
PaintIdle ==
    /\ protos = <<>>
    /\ ppc = "off"
    /\ cursor = 0
    /\ paint_kits = <<>>
    /\ paintkits_obj = <<>>
    /\ pexc = ""

Init ==
    /\ now = 0
    /\ schema = None
    /\ file \in {NoFile, FileOf(Schema(FullRaw, 0))}
    /\ steam_api_key \in {"None", "key"}
    /\ save_to_file \in BOOLEAN
    /\ op = [c \in Callers |-> "none"]
    /\ force_files = [c \in Callers |-> FALSE]
    /\ pc = [c \in Callers |-> "idle"]
    /\ local = [c \in Callers |-> None]
    /\ data = [c \in Callers |-> None]
    /\ task = [c \in Callers |-> NoTasks]
    /\ exc = [c \in Callers |-> ""]
    /\ sent = [c \in Callers |-> 0]
    /\ result = [c \in Callers |-> Pending]
    /\ start = [c \in Callers |-> 0]
    /\ solo = [c \in Callers |-> FALSE]
    /\ net_time = NoTime
    /\ source = NoSource
    /\ fpc = "off"
    /\ params = 0
    /\ i = 0
    /\ e = Unbound
    /\ outcomes = <<>>
    /\ items = <<>>
    /\ pagelog = <<>>
    /\ fexc = ""
    /\ PaintIdle

\* Every caller makes one call (calls one after the other on the same
\* coroutine are calls of different callers here), and the callers are
\* numbered in the order in which they call.
CanCall(c) == pc[c] = "idle" /\ \A d \in 1 .. (c - 1) : pc[d] # "idle"

\* Entry of any call.
Enter(c, name, f) ==
    /\ CanCall(c)
    /\ op' = [op EXCEPT ![c] = name]
    /\ force_files' = [force_files EXCEPT ![c] = f]
    /\ sent' = [sent EXCEPT ![c] = 0]
    /\ local' = [local EXCEPT ![c] = None]
    /\ start' = [start EXCEPT ![c] = IF name = "wait_for_schema" THEN now ELSE 0]
    /\ solo' = [d \in Callers |->
                   IF d = c THEN \A b \in Callers \ {c} : pc[b] \in {"idle", "done"}
                   ELSE solo[d] /\ pc[d] \in {"idle", "done"}]

\* The call of c ends with outcome r; its tasks and locals are dropped.
Finish(c, r) ==
    /\ pc' = [pc EXCEPT ![c] = "done"]
    /\ result' = [result EXCEPT ![c] = r]
    /\ task' = [task EXCEPT ![c] = NoTasks]
    /\ exc' = [exc EXCEPT ![c] = ""]
    /\ data' = [data EXCEPT ![c] = None]

\* The call of c goes on: to position p, with tasks t.
Continue(c, p, t) ==
    /\ pc' = [pc EXCEPT ![c] = p]
    /\ result' = [result EXCEPT ![c] = Pending]
    /\ task' = [task EXCEPT ![c] = t]
    /\ UNCHANGED <<exc, data>>

\* fetch_schema up to the await of asyncio.gather: the four sub-fetches are
\* wrapped in tasks, none of which has run yet.
StartGather(c) == Continue(c, "gather", ReadyTasks)

\* Suspend in aiofiles.open / f.read of _get_schema_from_file.
StartLoad(c) == Continue(c, "open", NoTasks)

\* get, line 57: a missing file is re-raised only in file-only use.
MissingFileRaisesM(f) == FALSE
MissingFileRaises(f) == f

\* get, line 65: the cached schema is absent or older than update_interval.
NeedsFetchM(s) == (~s.set) \/ (now - s.fetch_time >= update_interval)
NeedsFetch(s) == (~s.set) \/ (now - s.fetch_time > update_interval)

\* What every step leaves alone unless it says otherwise.
\* The constructor's arguments and the fetch run, which no call changes.
cfg == <<steam_api_key, save_to_file, fvars, pvars>>
env == <<now, schema, file, net_time, cfg>>
entry == <<op, force_files, sent, start, solo>>

\* get with line 59 clearing self.schema instead of its local `schema`.
GetM(c, f) ==
    /\ Enter(c, "get", f)
    /\ IF file.state = "absent"
       THEN /\ schema' = IF MissingFileRaises(f) THEN schema ELSE None
            /\ IF MissingFileRaises(f)
               THEN Finish(c, Raise("FileNotFoundError"))
               ELSE IF f
                    THEN Finish(c, Return(None))
                    ELSE IF NeedsFetch(None)
                         THEN StartGather(c)
                         ELSE Finish(c, Return(None))
       ELSE StartLoad(c) /\ UNCHANGED schema
    /\ UNCHANGED <<now, file, net_time, cfg>>

\* get(force_files=f) up to its first suspension: _get_schema_from_file
\* tests the path (line 236) and either raises or starts reading.
Get(c, f) ==
    /\ Enter(c, "get", f)
    /\ IF file.state = "absent"
       THEN IF MissingFileRaises(f)
            THEN Finish(c, Raise("FileNotFoundError"))
            ELSE IF f
                 THEN Finish(c, Return(None))
                 ELSE IF NeedsFetch(None)
                      THEN StartGather(c)
                      ELSE Finish(c, Return(None))
       ELSE StartLoad(c)
    /\ UNCHANGED env

\* get_schema_from_file() called directly, up to its first suspension.
GetSchemaFromFile(c) ==
    /\ Enter(c, "get_schema_from_file", FALSE)
    /\ IF file.state = "absent"
       THEN Finish(c, Raise("FileNotFoundError"))
       ELSE StartLoad(c)
    /\ UNCHANGED env

\* fetch_schema() called directly, up to the await of gather.
FetchSchema(c) ==
    /\ Enter(c, "fetch_schema", FALSE)
    /\ StartGather(c)
    /\ UNCHANGED env

\* The file has been read: json.loads, then get_schema_from_file publishes
\* the document (line 115) and get decides what to do with it (lines 62-68).
LoadRead(c) ==
    /\ pc[c] = "open"
    /\ IF file.state # "data"
       THEN /\ Finish(c, Raise("JSONDecodeError"))
            /\ UNCHANGED <<schema, local>>
       ELSE LET s == Schema(file.raw, file.fetch_time) IN
            /\ schema' = s
            /\ IF op[c] = "get_schema_from_file"
               THEN /\ Finish(c, Return(s))
                    /\ UNCHANGED local
               ELSE /\ local' = [local EXCEPT ![c] = s]
                    /\ IF force_files[c]
                       THEN Finish(c, Return(s))
                       ELSE IF NeedsFetch(s)
                            THEN StartGather(c)
                            ELSE Finish(c, Return(s))
    /\ UNCHANGED <<now, file, net_time, cfg, entry>>

\* The first exception of a sub-fetch is the one gather raises.
FirstExc(c, x) == IF exc[c] = "" THEN x ELSE exc[c]

\* _fetch_items_from_steam, line 159: the credential is checked before the
\* first request. The other three sub-fetches have no such check: they go
\* straight to _fetch_page, which sends its request (line 143).
ChecksKey(k) == SubFetches[k] = "items"

\* The sub-fetches that stop at the credential check in their first turn.
Rejected == {k \in 1 .. NumSub : ChecksKey(k) /\ steam_api_key = "None"}

\* The gathered tasks run for the first time. gather scheduled them one after
\* the other, so the event loop runs their first turns back to back, each up
\* to the await of client.send (or to the raise of line 160).
TasksStart(c) ==
    /\ pc[c] = "gather"
    /\ \A k \in 1 .. NumSub : task[c][k] = "ready"
    /\ task' = [task EXCEPT ![c] =
                   [k \in 1 .. NumSub |->
                       IF k \in Rejected THEN "failed" ELSE "inflight"]]
    /\ exc' = [exc EXCEPT ![c] =
                   IF Rejected # {} THEN FirstExc(c, "ValueError") ELSE exc[c]]
    /\ sent' = [sent EXCEPT ![c] = NumSub - Cardinality(Rejected)]
    /\ UNCHANGED <<env, op, force_files, start, solo, pc, local,
                   data, result>>

\* A sub-fetch returns its part of the document. The sub-fetches share no
\* state and a step can only tell which of them have returned, so they are
\* taken to return in gather's order.
TaskOk(c, k) ==
    /\ pc[c] = "gather"
    /\ exc[c] = ""
    /\ task[c][k] = "inflight"
    /\ \A j \in 1 .. (k - 1) : task[c][j] = "ok"
    /\ task' = [task EXCEPT ![c][k] = "ok"]
    /\ UNCHANGED <<env, entry, pc, local, data, exc, result>>

\* A sub-fetch raises out of _fetch_page or out of its own parsing: gather
\* raises that exception to fetch_schema, which lets it through (and so
\* does get). The other sub-fetches are not cancelled; their results are
\* dropped.
TaskFail(c, k) ==
    /\ pc[c] = "gather"
    /\ exc[c] = ""
    /\ task[c][k] = "inflight"
    /\ Finish(c, Raise("FetchError"))
    /\ UNCHANGED <<env, entry, local>>

\* gather returns its list of results once every sub-fetch has returned.
GatherReturnsM(c) == \E k \in 1 .. NumSub : task[c][k] = "ok"
GatherReturns(c) == \A k \in 1 .. NumSub : task[c][k] = "ok"

\* The document assembled from the gathered results (lines 95-102).
Assembled(c) ==
    [k \in 1 .. NumSub |-> IF task[c][k] = "ok" THEN SubFetches[k] ELSE Missing]

\* line 101: fetch_time=time.time(), read when the Schema is built.
FetchTimeM(c) == IF local[c].set THEN local[c].fetch_time ELSE now
FetchTime(c) == now

\* fetch_schema after gather returned: publish (line 95), then save
\* (line 105) or return (line 107).
GatherOk(c) ==
    /\ pc[c] = "gather"
    /\ exc[c] = ""
    /\ GatherReturns(c)
    /\ LET s == Schema(Assembled(c), FetchTime(c)) IN
       /\ schema' = s
       /\ net_time' = s.fetch_time
       /\ IF save_to_file
          THEN /\ data' = [data EXCEPT ![c] = s]
               /\ pc' = [pc EXCEPT ![c] = "save_open"]
               /\ task' = [task EXCEPT ![c] = NoTasks]
               /\ UNCHANGED <<result, exc>>
          ELSE Finish(c, Return(s))
    /\ UNCHANGED <<now, file, cfg, entry, local>>

\* A sub-fetch raised in its first turn: gather raises that exception. The
\* callback that wakes the caller was scheduled behind the first turns of
\* the other tasks, so it runs after all of them.
GatherFail(c) ==
    /\ pc[c] = "gather"
    /\ exc[c] # ""
    /\ \A k \in 1 .. NumSub : task[c][k] # "ready"
    /\ Finish(c, Raise(exc[c]))
    /\ UNCHANGED <<env, entry, local>>

\* _save_schema_to_file: aiofiles.open(path, "w") truncates the file.
SaveOpen(c) ==
    /\ pc[c] = "save_open"
    /\ file' = Truncated
    /\ pc' = [pc EXCEPT ![c] = "save_write"]
    /\ UNCHANGED <<now, schema, net_time, cfg, entry, local,
                   data, task, exc, result>>

\* What the file can hold once the caller's handle has written its document
\* from offset 0 and is closed. The file is still empty unless another handle
\* wrote after this one truncated it; then the document lies over the other
\* one, whose tail stays in the file when it is the longer of the two.
WriteOutcomesM(c) == {Truncated}
WriteOutcomes(c) ==
    IF file.state = "truncated" \/ file = FileOf(data[c])
    THEN {FileOf(data[c])}
    ELSE {FileOf(data[c]), Mixed}

\* _save_schema_to_file: the document is written and the file closed; then
\* fetch_schema returns self.schema (line 107).
SaveWrite(c) ==
    /\ pc[c] = "save_write"
    /\ file' \in WriteOutcomes(c)
    /\ Finish(c, Return(schema))
    /\ UNCHANGED <<now, schema, net_time, cfg, entry, local>>

\* wait_for_schema, line 79.
TimedOutM(c) == start[c] - now > Timeout
TimedOut(c) == now - start[c] > Timeout

\* wait_for_schema(timeout) up to its first suspension (lines 76-78).
WaitForSchema(c) ==
    /\ now + Timeout < MaxTime
    /\ Enter(c, "wait_for_schema", FALSE)
    /\ IF has_schema
       THEN Finish(c, Return(None))
       ELSE Continue(c, "sleep", NoTasks)
    /\ UNCHANGED env

\* wait_for_schema resumes from asyncio.sleep(0.1): the timeout is tested
\* first (line 79), the loop condition after it (line 77).
WaitWake(c) ==
    /\ pc[c] = "woke"
    /\ IF TimedOut(c)
       THEN Finish(c, Raise("TimeoutError"))
       ELSE IF has_schema
            THEN Finish(c, Return(None))
            ELSE Continue(c, "sleep", NoTasks)
    /\ UNCHANGED <<env, entry, local>>

\* The clock advances by one tick; a sleep of one poll delay is over.
Tick ==
    /\ now < MaxTime
    /\ now' = now + 1
    /\ pc' = [c \in Callers |-> IF pc[c] = "sleep" THEN "woke" ELSE pc[c]]
    /\ UNCHANGED <<schema, file, net_time, cfg, entry, local,
                   data, task, exc, result>>

\* ------------------------------------------ _fetch_items_from_steam
\* What one attempt of _fetch_page can meet (lines 143-147):
\*   page      : 2xx status, the JSON page of the requested start token
\*   null      : 2xx status, the JSON body `null`
\*   text      : 2xx status, a body that is not JSON
\*   status    : a non-2xx status
\*   transport : client.send raises (connection error, request timeout)
Responses == {"page", "null", "text", "status", "transport"}

\* The exception an attempt raises inside the try block ("" for none).
\* raise_for_status raises httpx.HTTPStatusError; response.json() raises
\* json.JSONDecodeError, a ValueError, on a body that is not JSON; on `null`
\* response.json() is None but response.text is not, so nothing is raised.
AttemptExc(r) ==
    CASE r = "status" -> "HTTPStatusError"
      [] r = "text" -> "JSONDecodeError"
      [] r = "transport" -> "ConnectError"
      [] OTHER -> ""

\* except (httpx.HTTPStatusError, ValueError), line 152.
Caught(x) == x \in {"HTTPStatusError", "JSONDecodeError", "ValueError"}

\* `raise e` (line 155) when the name e is not bound.
RaiseE(x) == IF x = Unbound THEN "UnboundLocalError" ELSE x

\* line 172: "next" in data["result"].
HasNext(page) == page.next # 0

\* lines 171 and 176: the first page's list, extended by every later page.
AccumulateM(acc, page) == page.items \o acc
Accumulate(acc, page) == acc \o page.items

mfix == <<mvars, steam_api_key, source, pvars>>

\* _fetch_page is entered (lines 136-143): the Request is built from params
\* and the first attempt sends it.
CallFetchPage(tok) ==
    /\ params' = tok
    /\ i' = 0
    /\ e' = Unbound
    /\ outcomes' = <<>>
    /\ fpc' = "wait"

\* _fetch_items_from_steam is called (lines 159-167).
FetchItems ==
    /\ fpc = "init"
    /\ IF steam_api_key = "None"
       THEN /\ fpc' = "raised"
            /\ fexc' = "ValueError"
            /\ UNCHANGED <<params, i, e, outcomes>>
       ELSE /\ CallFetchPage(0)
            /\ UNCHANGED fexc
    /\ UNCHANGED <<mfix, items, pagelog>>

\* An attempt of _fetch_page ends with response r (lines 143-154). A
\* returned response goes back to _fetch_items_from_steam, which adds the
\* page and follows `next` (lines 169-178).
Attempt(r) ==
    /\ fpc = "wait"
    /\ IF AttemptExc(r) # ""
       THEN IF Caught(AttemptExc(r))
            THEN /\ e' = AttemptExc(r)
                 /\ fpc' = "sleep"
                 /\ outcomes' = Append(outcomes, r)
                 /\ UNCHANGED <<params, i, items, pagelog, fexc>>
            ELSE /\ fpc' = "raised"
                 /\ fexc' = AttemptExc(r)
                 /\ outcomes' = Append(outcomes, r)
                 /\ UNCHANGED <<params, i, e, items, pagelog>>
       ELSE IF r = "null"
            THEN /\ fpc' = "raised"
                 /\ fexc' = "TypeError"
                 /\ outcomes' = Append(outcomes, r)
                 /\ UNCHANGED <<params, i, e, items, pagelog>>
            ELSE LET page == source[params] IN
                 /\ items' = Accumulate(items, page)
                 /\ pagelog' = Append(pagelog, params)
                 /\ IF HasNext(page)
                    THEN /\ CallFetchPage(page.next)
                         /\ UNCHANGED fexc
                    ELSE /\ fpc' = "returned"
                         /\ outcomes' = Append(outcomes, r)
                         /\ UNCHANGED <<params, i, e, fexc>>
    /\ UNCHANGED mfix

\* The loop of line 141 running one turn too many.
RetryM ==
    /\ fpc = "sleep"
    /\ e' = Unbound
    /\ IF i + 1 <= Retries
       THEN /\ i' = i + 1
            /\ fpc' = "wait"
            /\ UNCHANGED fexc
       ELSE /\ fpc' = "raised"
            /\ fexc' = RaiseE(e')
            /\ UNCHANGED i
    /\ UNCHANGED <<mfix, params, outcomes, items, pagelog>>

\* asyncio.sleep(wait_time) is over (line 154). Leaving the except clause
\* unbinds e; the loop sends the request again, or ends and line 155 runs.
Retry ==
    /\ fpc = "sleep"
    /\ e' = Unbound
    /\ IF i + 1 < Retries
       THEN /\ i' = i + 1
            /\ fpc' = "wait"
            /\ UNCHANGED fexc
       ELSE /\ fpc' = "raised"
            /\ fexc' = RaiseE(e')
            /\ UNCHANGED i
    /\ UNCHANGED <<mfix, params, outcomes, items, pagelog>>

Next ==
    \/ Tick
    \/ \E c \in Callers, f \in BOOLEAN : Get(c, f)
    \/ \E c \in Callers : GetSchemaFromFile(c)
    \/ \E c \in Callers : FetchSchema(c)
    \/ \E c \in Callers : LoadRead(c)
    \/ \E c \in Callers : TasksStart(c)
    \/ \E c \in Callers, k \in 1 .. NumSub : TaskOk(c, k)
    \/ \E c \in Callers, k \in 1 .. NumSub : TaskFail(c, k)
    \/ \E c \in Callers : GatherOk(c)
    \/ \E c \in Callers : GatherFail(c)
    \/ \E c \in Callers : SaveOpen(c)
    \/ \E c \in Callers : SaveWrite(c)
    \/ \E c \in Callers : WaitForSchema(c)
    \/ \E c \in Callers : WaitWake(c)

Spec == Init /\ [][Next]_vars

\* One run of _fetch_items_from_steam against a listing that ends.
FetchInit ==
    /\ now = 0
    /\ schema = None
    /\ file = NoFile
    /\ steam_api_key \in {"None", "key"}
    /\ save_to_file = FALSE
    /\ op = [c \in Callers |-> "none"]
    /\ force_files = [c \in Callers |-> FALSE]
    /\ pc = [c \in Callers |-> "idle"]
    /\ local = [c \in Callers |-> None]
    /\ data = [c \in Callers |-> None]
    /\ task = [c \in Callers |-> NoTasks]
    /\ exc = [c \in Callers |-> ""]
    /\ sent = [c \in Callers |-> 0]
    /\ result = [c \in Callers |-> Pending]
    /\ start = [c \in Callers |-> 0]
    /\ solo = [c \in Callers |-> FALSE]
    /\ net_time = NoTime
    /\ source \in Sources
    /\ fpc = "init"
    /\ params = 0
    /\ i = 0
    /\ e = Unbound
    /\ outcomes = <<>>
    /\ items = <<>>
    /\ pagelog = <<>>
    /\ fexc = ""
    /\ PaintIdle

FetchNext ==
    \/ FetchItems
    \/ \E r \in Responses : Attempt(r)
    \/ Retry

FetchSpec == FetchInit /\ [][FetchNext]_vars

\* ------------------------------------------- _fetch_paint_kits_from_github
\* Strings are sequences of one-character strings.
Digits == {"0", "1", "2", "3", "4", "5", "6", "7", "8", "9"}

DigitValue(ch) ==
    CASE ch = "0" -> 0 [] ch = "1" -> 1 [] ch = "2" -> 2 [] ch = "3" -> 3
      [] ch = "4" -> 4 [] ch = "5" -> 5 [] ch = "6" -> 6 [] ch = "7" -> 7
      [] ch = "8" -> 8 [] ch = "9" -> 9

\* str.split(sep): the pieces between the occurrences of sep (at least one
\* piece, empty pieces included).
RECURSIVE Split(_, _)
Split(s, sep) ==
    IF \A j \in 1 .. Len(s) : s[j] # sep
    THEN <<s>>
    ELSE LET p == CHOOSE j \in 1 .. Len(s) :
                      s[j] = sep /\ \A m \in 1 .. (j - 1) : s[m] # sep
         IN  <<SubSeq(s, 1, p - 1)>> \o Split(SubSeq(s, p + 1, Len(s)), sep)

\* line 190: proto.split(' ', 1)[0].split('_').
Parts(proto) == Split(Split(proto, " ")[1], "_")

\* str.startswith(prefix).
StartsWith(s, prefix) ==
    Len(prefix) <= Len(s) /\ SubSeq(s, 1, Len(prefix)) = prefix

\* int(s) of line 201 succeeds: an optional sign and at least one digit (a
\* piece of Parts holds neither a space nor an underscore).
Unsigned(s) == IF s # <<>> /\ s[1] \in {"+", "-"} THEN Tail(s) ELSE s
IsInt(s) == Unsigned(s) # <<>> /\ \A j \in 1 .. Len(Unsigned(s)) : Unsigned(s)[j] \in Digits

RECURSIVE DecimalValue(_)
DecimalValue(s) ==
    IF s = <<>> THEN 0
    ELSE 10 * DecimalValue(SubSeq(s, 1, Len(s) - 1)) + DigitValue(s[Len(s)])

IntOf(s) ==
    IF s # <<>> /\ s[1] = "-" THEN 0 - DecimalValue(Unsigned(s))
    ELSE DecimalValue(Unsigned(s))

\* line 191: the key is a candidate.
Candidate(parts) == Len(parts) = 3 /\ parts[1] = <<"9">>

\* line 196: name.startswith(definition + ':').
PlaceholderM(definition, name) == \E j \in 1 .. Len(name) : name[j] = ":"
Placeholder(definition, name) == StartsWith(name, definition \o <<":">>)

\* line 201: list.sort(key=lambda x: int(x["id"])), a stable sort.
SortInsert(q, r) ==
    LET n == Cardinality({j \in 1 .. Len(q) : IntOf(q[j].id) <= IntOf(r.id)})
    IN  SubSeq(q, 1, n) \o <<r>> \o SubSeq(q, n + 1, Len(q))

RECURSIVE SortedKits(_)
SortedKits(q) ==
    IF q = <<>> THEN <<>>
    ELSE SortInsert(SortedKits(SubSeq(q, 1, Len(q) - 1)), q[Len(q)])

\* dict.values() and dict[k] = v on a dict kept in insertion order: a new key
\* goes to the end, a key already there keeps its place and gets the value.
DictValues(d) == {d[j].name : j \in 1 .. Len(d)}
DictKeys(d) == {d[j].id : j \in 1 .. Len(d)}
DictSet(d, k, v) ==
    IF k \in DictKeys(d)
    THEN [j \in 1 .. Len(d) |-> IF d[j].id = k THEN [id |-> k, name |-> v] ELSE d[j]]
    ELSE Append(d, [id |-> k, name |-> v])

pfix == <<mvars, steam_api_key, fvars, protos>>

\* One turn of the loop of lines 189-199.
ScanProto ==
    /\ ppc = "scan"
    /\ cursor < Len(protos)
    /\ LET proto == protos[cursor + 1].key
           name == protos[cursor + 1].name
           parts == Parts(proto)
       IN  paint_kits' =
               IF Candidate(parts) /\ ~Placeholder(parts[2], name)
               THEN Append(paint_kits, [id |-> parts[2], name |-> name])
               ELSE paint_kits
    /\ cursor' = cursor + 1
    /\ UNCHANGED <<pfix, ppc, paintkits_obj, pexc>>

\* The loop is over; line 201 sorts the candidates, and int() raises
\* ValueError on an id that is not a number.
SortKits ==
    /\ ppc = "scan"
    /\ cursor = Len(protos)
    /\ IF \A j \in 1 .. Len(paint_kits) : IsInt(paint_kits[j].id)
       THEN /\ paint_kits' = SortedKits(paint_kits)
            /\ ppc' = "build"
            /\ UNCHANGED pexc
       ELSE /\ ppc' = "raised"
            /\ pexc' = "ValueError"
            /\ UNCHANGED paint_kits
    /\ cursor' = 0
    /\ UNCHANGED <<pfix, paintkits_obj>>

\* One turn of the loop of lines 204-206.
BuildKit ==
    /\ ppc = "build"
    /\ cursor < Len(paint_kits)
    /\ LET paint_kit == paint_kits[cursor + 1]
       IN  paintkits_obj' =
               IF paint_kit.name \notin DictValues(paintkits_obj)
               THEN DictSet(paintkits_obj, paint_kit.id, paint_kit.name)
               ELSE paintkits_obj
    /\ cursor' = cursor + 1
    /\ UNCHANGED <<pfix, ppc, paint_kits, pexc>>

\* line 208.
ReturnKits ==
    /\ ppc = "build"
    /\ cursor = Len(paint_kits)
    /\ ppc' = "returned"
    /\ UNCHANGED <<pfix, cursor, paint_kits, paintkits_obj, pexc>>

\* Prototype keys and display names of the Tokens mappings explored.
ProtoKeys ==
    { <<"9", "_", "1", "_", "a">>,
      <<"9", "_", "1", "_", "b">>,
      <<"9", "_", "2", "_", "a">>,
      <<"8", "_", "2", "_", "a">>,
      <<"9", "_", "2", " ", "a", "_", "b">>,
      <<"9", "_", "x", "_", "a">> }

ProtoNames == { <<"A">>, <<"B">>, <<"1", ":", "A">> }

\* The mapping of the extractor's documented example.
ExampleTokens ==
    << [key |-> <<"9", "_", "1", "0", "0", "_", "f", "o", "o">>, name |-> <<"A">>],
       [key |-> <<"9", "_", "1", "0", "0", "_", "b", "a", "r">>, name |-> <<"A">>],
       [key |-> <<"8", "_", "2", "0", "0", "_", "b", "a", "z">>, name |-> <<"X">>],
       [key |-> <<"9", "_", "3", "0", "0", "_", "1", "0", "0", ":">>,
        name |-> <<"1", "0", "0", ":">>] >>

\* A mapping has every key once.
TokenMappings ==
    {q \in SeqsUpTo([key : ProtoKeys, name : ProtoNames], MaxProtos) :
        \A j, m \in 1 .. Len(q) : q[j].key = q[m].key => j = m}

\* One run of the extraction on a parsed Tokens mapping.
PaintInit ==
    /\ now = 0
    /\ schema = None
    /\ file = NoFile
    /\ steam_api_key = "key"
    /\ save_to_file = FALSE
    /\ op = [c \in Callers |-> "none"]
    /\ force_files = [c \in Callers |-> FALSE]
    /\ pc = [c \in Callers |-> "idle"]
    /\ local = [c \in Callers |-> None]
    /\ data = [c \in Callers |-> None]
    /\ task = [c \in Callers |-> NoTasks]
    /\ exc = [c \in Callers |-> ""]
    /\ sent = [c \in Callers |-> 0]
    /\ result = [c \in Callers |-> Pending]
    /\ start = [c \in Callers |-> 0]
    /\ solo = [c \in Callers |-> FALSE]
    /\ net_time = NoTime
    /\ source = NoSource
    /\ fpc = "off"
    /\ params = 0
    /\ i = 0
    /\ e = Unbound
    /\ outcomes = <<>>
    /\ items = <<>>
    /\ pagelog = <<>>
    /\ fexc = ""
    /\ protos \in TokenMappings \cup {ExampleTokens}
    /\ ppc = "scan"
    /\ cursor = 0
    /\ paint_kits = <<>>
    /\ paintkits_obj = <<>>
    /\ pexc = ""

PaintNext ==
    \/ ScanProto
    \/ SortKits
    \/ BuildKit
    \/ ReturnKits

PaintSpec == PaintInit /\ [][PaintNext]_vars

\* wait_for_schema under the event loop's scheduling: the clock advances and
\* a coroutine whose sleep is over is resumed. The manager caches to a file
\* that does not exist yet.
LiveInit == Init /\ file = NoFile /\ save_to_file

LiveSpec ==
    /\ LiveInit
    /\ [][Next]_vars
    /\ WF_vars(Tick)
    /\ \A c \in Callers : WF_vars(WaitWake(c))

\* ------------------------------------------------------------ properties
Age(s) == now - s.fetch_time
Cached == Schema(file.raw, file.fetch_time)
InGet(c) == op[c] = "get" /\ ~force_files[c]
Waiting(c) == op[c] = "wait_for_schema" /\ pc[c] \in {"sleep", "woke"}

\* C1: in get(force_files=False), a cached document no older than
\* update_interval is returned without any network request; an older one
\* starts the network aggregate fetch, and the snapshot that fetch publishes
\* has a fetch_time strictly greater than the cached document's.
C1_FreshServedStaleRefetched ==
    [][\A c \in Callers :
        /\ (InGet(c) /\ pc[c] = "open" /\ pc'[c] # "open" /\ file.state = "data")
            => IF Age(Cached) <= update_interval
               THEN /\ result'[c] = Return(Cached)
                    /\ pc'[c] = "done"
                    /\ sent'[c] = 0
                    /\ task'[c] = NoTasks
               ELSE /\ pc'[c] = "gather"
                    /\ task'[c] = ReadyTasks
        /\ (InGet(c) /\ local[c].set /\ pc[c] = "gather"
                /\ pc'[c] \in {"save_open", "done"} /\ result'[c].kind # "raise")
            => /\ schema'.set
               /\ schema'.fetch_time > local[c].fetch_time
               /\ sent[c] > 0]_vars

C1_Witness ==
    \E c \in Callers :
        /\ InGet(c) /\ pc[c] = "done" /\ result[c].kind = "return"
        /\ local[c].set /\ sent[c] = NumSub
        /\ schema.fetch_time > local[c].fetch_time

\* C2: get(force_files=True) never sends a network request; with the cache
\* file missing it raises FileNotFoundError and leaves self.schema as it was.
C2_FileOnlyNoNetwork ==
    /\ [](\A c \in Callers :
            (op[c] = "get" /\ force_files[c])
                => sent[c] = 0 /\ task[c] = NoTasks /\ pc[c] \in {"open", "done"})
    /\ [][\A c \in Callers :
            (pc[c] = "idle" /\ op'[c] = "get" /\ force_files'[c]
                    /\ file.state = "absent")
                => /\ pc'[c] = "done"
                   /\ result'[c] = Raise("FileNotFoundError")
                   /\ schema' = schema]_vars

C2_Witness ==
    \E c \in Callers :
        /\ op[c] = "get" /\ force_files[c] /\ pc[c] = "done"
        /\ result[c] = Raise("FileNotFoundError")
        /\ ~has_schema

\* C3: fetch_schema publishes only a document made of all four results; a
\* call whose gather fails raises and leaves self.schema alone, and no other
\* step of a fetch assigns self.schema.
C3_AllOrNothing ==
    /\ [](has_schema => \A k \in 1 .. NumSub : schema.raw[k] # Missing)
    /\ [][\A c \in Callers :
            (pc[c] = "gather" /\ pc'[c] # "gather")
                => IF \A k \in 1 .. NumSub : task[c][k] = "ok"
                   THEN schema' = Schema(FullRaw, now)
                   ELSE /\ schema' = schema
                        /\ pc'[c] = "done"
                        /\ result'[c].kind = "raise"]_vars
    /\ [][schema' # schema
            => \E c \in Callers :
                  \/ pc[c] = "open" /\ pc'[c] # "open"
                  \/ /\ pc[c] = "gather" /\ pc'[c] # "gather"
                     /\ \A k \in 1 .. NumSub : task[c][k] = "ok"]_vars

C3_Witness ==
    \E c \in Callers :
        /\ op[c] = "fetch_schema" /\ pc[c] = "done"
        /\ result[c] = Raise("FetchError") /\ sent[c] = NumSub
        /\ has_schema

\* C4 (as claimed), for the first call made on a manager: when
\* get(force_files=False) ends by raising because the network aggregate
\* fetch failed, self.schema is what it was when the call began, None.
C4_FailedGetKeepsSnapshot ==
    (/\ InGet(1) /\ pc[1] = "done"
     /\ result[1].kind = "raise"
     /\ result[1].exc \in {"FetchError", "ValueError"}
     /\ \A d \in Callers \ {1} : pc[d] = "idle")
        => schema = None

\* C5 (as claimed): while get(force_files=False) is fetching from the
\* network, the cached document it found too old is not self.schema.
C5_StaleNeverPublished ==
    \A c \in Callers :
        (/\ InGet(c) /\ pc[c] = "gather"
         /\ local[c].set /\ Age(local[c]) > update_interval)
            => schema # local[c]

C7_LastFailureRaised ==
    (/\ fpc = "raised"
     /\ Len(outcomes) = Retries
     /\ \A j \in 1 .. Len(outcomes) : Caught(AttemptExc(outcomes[j])))
        => fexc = AttemptExc(outcomes[Len(outcomes)])

\* C8 (as claimed): a transport failure reaches the caller of _fetch_page
\* only after all `retries` attempts have been made.
C8_TransportRetried ==
    (/\ fpc = "raised"
     /\ outcomes # <<>>
     /\ outcomes[Len(outcomes)] = "transport")
        => Len(outcomes) = Retries

\* C9 (as claimed): with steam_api_key None, the aggregate fetch raises the
\* missing-credential error before any of its sub-fetches has sent a request.
C9_NoRequestWithoutKey ==
    \A c \in Callers :
        (/\ steam_api_key = "None"
         /\ pc[c] = "done"
         /\ result[c] = Raise("ValueError"))
            => sent[c] = 0

\* The items of the pages behind the start tokens q, in that order.
RECURSIVE PageItems(_, _)
PageItems(src, q) ==
    IF q = <<>> THEN <<>>
    ELSE src[Head(q)].items \o PageItems(src, Tail(q))

\* C10: against a listing of N pages, _fetch_items_from_steam requests the
\* first page and then exactly the `next` token of each page received, stops
\* after the N-th page, and returns the N pages' items in page order.
C10_Pagination ==
    LET chain == Chain(source, 0, {}) IN
    /\ Len(pagelog) <= Len(chain)
    /\ pagelog = SubSeq(chain, 1, Len(pagelog))
    /\ fpc = "wait" => params = chain[Len(pagelog) + 1]
    /\ (fpc # "init" /\ Len(pagelog) = Len(chain)) => fpc = "returned"
    /\ fpc = "returned" => pagelog = chain /\ items = PageItems(source, chain)

C10_Witness ==
    /\ fpc = "returned"
    /\ Len(pagelog) = NumTokens + 1
    /\ Len(items) >= 2
    /\ items[1] # items[2]

\* The extraction's result on the documented example, as the claim has it
\* and as the rule of line 196 gives it.
ExampleClaimed == << [id |-> <<"1", "0", "0">>, name |-> <<"A">>] >>
ExampleResult ==
    << [id |-> <<"1", "0", "0">>, name |-> <<"A">>],
       [id |-> <<"3", "0", "0">>, name |-> <<"1", "0", "0", ":">>] >>

\* C11 (as claimed): on the documented example the extraction returns
\* exactly {"100": "A"}.
C11_ExampleAsClaimed ==
    (protos = ExampleTokens /\ ppc = "returned") => paintkits_obj = ExampleClaimed

\* C11 (amended): on the documented example the extraction returns
\* {"100": "A", "300": "100:"}: the key whose first part is not "9" is
\* dropped and the duplicate name is kept once, but the key 9_300_100: is
\* kept, because its name "100:" does not start with its own id, "300:".
C11_Example ==
    /\ (protos = ExampleTokens /\ ppc = "returned") => paintkits_obj = ExampleResult
    /\ protos = ExampleTokens => ppc # "raised"

C11_Witness ==
    /\ protos = ExampleTokens
    /\ ppc = "returned"
    /\ Len(paintkits_obj) = 2

\* The candidates the extraction accepts, in the mapping's order.
RECURSIVE Accepted(_)
Accepted(q) ==
    IF q = <<>> THEN <<>>
    ELSE LET r == q[Len(q)]
             parts == Parts(r.key)
             rest == Accepted(SubSeq(q, 1, Len(q) - 1))
         IN  IF Len(parts) = 3 /\ parts[1] = <<"9">>
                    /\ ~StartsWith(r.name, parts[2] \o <<":">>)
             THEN Append(rest, [id |-> parts[2], name |-> r.name])
             ELSE rest

\* C17 (as claimed): in the returned map every name of an accepted candidate
\* appears exactly once, under the id of the first candidate of the input
\* mapping that has the name; no two ids share a name; and the entries are
\* in ascending order of numeric id.
C17_DedupFirstInInput ==
    ppc = "returned" =>
        LET acc == Accepted(protos)
            obj == paintkits_obj
        IN  /\ \A j \in 1 .. Len(acc) :
                  LET first == CHOOSE m \in 1 .. Len(acc) :
                                   /\ acc[m].name = acc[j].name
                                   /\ \A n \in 1 .. (m - 1) : acc[n].name # acc[j].name
                  IN  /\ Cardinality({m \in 1 .. Len(obj) : obj[m].name = acc[j].name}) = 1
                      /\ \E m \in 1 .. Len(obj) :
                            obj[m] = [id |-> acc[first].id, name |-> acc[j].name]
            /\ \A j, m \in 1 .. Len(obj) : obj[j].name = obj[m].name => j = m
            /\ \A j, m \in 1 .. Len(obj) : j < m => IntOf(obj[j].id) < IntOf(obj[m].id)

\* C12 (as claimed): a load of the cache file never meets an empty,
\* truncated or mixed file: the file read by get_schema_from_file holds a
\* document and the fetch_time written with it, so no load ends in a decode
\* error.
C12_LoadSeesWholeDocument ==
    \A c \in Callers :
        (op[c] \in {"get", "get_schema_from_file"} /\ pc[c] = "done")
            => result[c] # Raise("JSONDecodeError")

\* The call of c runs without interleaving: no call was in progress when it
\* began and none has begun since.
Alone(c) == solo[c]

\* C13: a fetch_schema that returns normally, run without interleaving,
\* leaves in the cache file the document and fetch_time of the published
\* snapshot when save_to_file is set, and leaves the file as it was when it
\* is not; the file changes only in a step of a call whose network fetch has
\* succeeded with save_to_file set, and that call returns normally, so no
\* get served from the file and no failing call changes it.
C13_FileWrittenBySuccessfulFetch ==
    /\ [][\A c \in Callers :
            (/\ pc[c] \in {"gather", "save_write"} /\ pc'[c] = "done"
             /\ result'[c].kind = "return" /\ Alone(c))
                => /\ schema'.set /\ result'[c].value = schema'
                   /\ IF save_to_file
                      THEN file' = FileOf(schema') /\ pc[c] = "save_write"
                      ELSE file' = file]_vars
    /\ [][file' # file
            => /\ save_to_file
               /\ \E c \in Callers :
                     /\ pc[c] \in {"save_open", "save_write"}
                     /\ sent[c] = NumSub
                     /\ pc'[c] \in {"save_write", "done"}
                     /\ pc'[c] = "done" => result'[c].kind = "return"]_vars
    /\ [](\A c \in Callers :
            (pc[c] = "done" /\ (result[c].kind = "raise" \/ sent[c] = 0))
                => data[c] = None)

C13_Witness ==
    \E c \in Callers :
        /\ op[c] = "fetch_schema" /\ pc[c] = "done" /\ Alone(c)
        /\ result[c].kind = "return"
        /\ save_to_file
        /\ schema.fetch_time > 0
        /\ file = FileOf(schema)

\* C14: the snapshot a network fetch publishes carries the time of its
\* publication, which is no earlier than the fetch_time of the snapshot the
\* network fetch before it published, however the fetches interleave; the
\* clock does not go backwards.
C14_NetworkFetchTimeMonotone ==
    /\ [][now' >= now]_vars
    /\ [][net_time' # net_time => net_time' >= net_time]_vars
    /\ [][\A c \in Callers :
            (pc[c] = "gather" /\ pc'[c] # "gather" /\ result'[c].kind # "raise")
                => /\ schema'.set
                   /\ schema'.fetch_time = now
                   /\ net_time' = schema'.fetch_time
                   /\ net_time' >= net_time]_vars

C14_Witness ==
    /\ net_time > 0
    /\ \E c, d \in Callers :
          /\ c # d
          /\ op[c] = "fetch_schema" /\ op[d] = "fetch_schema"
          /\ pc[c] = "done" /\ pc[d] = "done"
          /\ result[c].kind = "return" /\ result[d].kind = "return"
          /\ result[c].value.fetch_time < result[d].value.fetch_time
          /\ ~solo[c] /\ ~solo[d]

\* Requests the current _fetch_page call has sent: one for each attempt that
\* has ended, and the one in flight.
Requests == Len(outcomes) + (IF fpc = "wait" THEN 1 ELSE 0)

\* C15: one _fetch_page call sends at most `retries` requests; it sends a
\* request only while every earlier attempt of the call has failed; and
\* between two attempts the call is suspended in asyncio.sleep: a failed
\* attempt goes to the sleep and a request is sent again only out of it.
C15_BoundedAttemptsWithSleep ==
    /\ [](Requests <= Retries)
    /\ [](fpc \in {"wait", "sleep"}
            => \A j \in 1 .. Len(outcomes) : Caught(AttemptExc(outcomes[j])))
    /\ [][(fpc = "wait" /\ Len(outcomes') = Len(outcomes) + 1
              /\ Caught(AttemptExc(outcomes'[Len(outcomes')])))
            => fpc' = "sleep" /\ i' = i]_vars
    /\ [][(fpc' = "wait" /\ fpc # "init" /\ Len(outcomes') > 0)
            => fpc = "sleep" /\ i' = i + 1 /\ outcomes' = outcomes]_vars

C15_Witness ==
    /\ fpc = "returned"
    /\ Len(outcomes) = Retries
    /\ outcomes[Len(outcomes)] = "page"

\* The response has a 2xx status and a body that is not empty.
GoodResponse(r) == r \in {"page", "text"}

\* The response has a status that is not 2xx, or an empty payload.
BadResponse(r) == r \in {"status", "null"}

\* C16 (as claimed): _fetch_page goes to the retry sleep exactly after a
\* response with a non-2xx status or an empty payload; a response with a 2xx
\* status and a non-empty body, JSON or plain text, is returned from that
\* very attempt.
C16_RetryableExactly ==
    (outcomes # <<>> /\ outcomes[Len(outcomes)] # "transport")
        => /\ fpc = "sleep" => BadResponse(outcomes[Len(outcomes)])
           /\ GoodResponse(outcomes[Len(outcomes)]) => fpc = "returned"

\* C18: once a snapshot is published has_schema stays true: no step of any
\* call, ending well or in an exception, sets self.schema back to None.
C18_ReadyAbsorbing ==
    /\ [][has_schema => has_schema']_vars
    /\ [](has_schema <=> schema # None)

C18_Witness ==
    /\ has_schema
    /\ \E c, d \in Callers :
          /\ c # d
          /\ pc[c] = "done" /\ result[c].kind = "raise" /\ op[c] = "get"
          /\ ~force_files[c] /\ local[c] = None
          /\ pc[d] = "done" /\ result[d].kind = "return"

\* C19 (as claimed): the fetch_time of self.schema never decreases.
C19_PublishedTimeMonotone ==
    [][(schema.set /\ schema'.set) => schema'.fetch_time >= schema.fetch_time]_vars

\* C20 (as claimed): wait_for_schema raises TimeoutError only while no
\* snapshot is published.
C20_TimeoutOnlyWhileEmpty ==
    [][\A c \in Callers :
          (Waiting(c) /\ result'[c] = Raise("TimeoutError")) => ~has_schema]_vars

TypeOK ==
    /\ now \in 0 .. MaxTime
    /\ schema.set \in BOOLEAN
    /\ \A c \in Callers : sent[c] \in 0 .. NumSub
====
